---- MODULE Spec2Model ----
(***************************************************************************)
(* cargo-subunit: runs `cargo test`, reads the runner's JSON event lines,  *)
(* and writes one subunit v2 packet per test event to standard output.     *)
(*                                                                         *)
(* Text whose characters matter (list output, filter files) is a sequence  *)
(* of one-character strings.  A runner JSON line is the structure serde    *)
(* sees: its shape and, per field, whether it is absent, null, a string or *)
(* a number.  Rust's Option<T> is a record [some, v].                      *)
(***************************************************************************)
EXTENDS Integers, Sequences, FiniteSets, TLC

\* ------------------------------------------------------------------ bounds
\* Lines the runner prints before end-of-stream, default run mode.
MaxLines == 3
\* Lines the runner prints before end-of-stream, --load-list mode.
MaxLoadRunLines == 1
\* Lines of the --load-list file.
MaxFileLines == 2
\* Lines of the runner's --list output.
MaxListLines == 2
\* Chunks the runner writes to the inherited stderr.
MaxChildErr == 1
\* Readings the wall clock moves through after the first.
MaxClock == 1

\* ------------------------------------------------------------- basic values
None == [some |-> FALSE, v |-> ""]
Some(x) == [some |-> TRUE, v |-> x]

\* A JSON field as serde meets it.  Numbers are carried as their text.
Absent == [t |-> "absent", v |-> ""]
Null == [t |-> "null", v |-> ""]
Str(s) == [t |-> "str", v |-> s]
Num(s) == [t |-> "num", v |-> s]

\* First byte of every subunit v2 packet (0xb3).
SIGNATURE == 179

\* ---------------------------------------------------------------- TestEvent
\* json_parser.rs TestEvent; a field a variant does not have is None.
Started(name) ==
  [kind |-> "Started", name |-> name, duration_secs |-> None,
   stdout |-> None, stderr |-> None]
Passed(name, d) ==
  [kind |-> "Passed", name |-> name, duration_secs |-> d,
   stdout |-> None, stderr |-> None]
Failed(name, d, so, se) ==
  [kind |-> "Failed", name |-> name, duration_secs |-> d,
   stdout |-> so, stderr |-> se]
Ignored(name) ==
  [kind |-> "Ignored", name |-> name, duration_secs |-> None,
   stdout |-> None, stderr |-> None]
Timeout(name, d) ==
  [kind |-> "Timeout", name |-> name, duration_secs |-> d,
   stdout |-> None, stderr |-> None]
NoEvent ==
  [kind |-> "-", name |-> "", duration_secs |-> None,
   stdout |-> None, stderr |-> None]

\* ------------------------------------------------------- serde: JsonEvent
\* A required String field: present and a string.
ReqString(j) == j.t = "str"
\* #[serde(default)] Option<T>: absent or null is None, a value of type T is
\* Some, a value of another type is an error.
OptOk(j, ty) == j.t \in {"absent", "null", ty}
OptVal(j, ty) == IF j.t = ty THEN Some(j.v) ELSE None

\* serde_json::from_str::<JsonEvent>: internally tagged by "type", variant
\* names lower-cased.  variant "-" is a deserialisation error.
from_str(line) ==
  IF line.shape # "object" \/ line.type.t # "str" THEN [variant |-> "-"]
  ELSE IF line.type.v = "suite" THEN
    IF ReqString(line.event) /\ OptOk(line.test_count, "num")
    THEN [variant |-> "Suite"] ELSE [variant |-> "-"]
  ELSE IF line.type.v = "test" THEN
    IF /\ ReqString(line.event) /\ ReqString(line.name)
       /\ OptOk(line.exec_time, "num")
       /\ OptOk(line.stdout, "str") /\ OptOk(line.stderr, "str")
    THEN [variant |-> "Test"] ELSE [variant |-> "-"]
  ELSE [variant |-> "-"]

\* Result<Option<TestEvent>>
ResErr == [tag |-> "err", event |-> NoEvent]
ResNone == [tag |-> "none", event |-> NoEvent]
ResSome(e) == [tag |-> "some", event |-> e]

\* parse_event with an unknown test kind reported as an error.
parse_eventUnknownIsError(line) ==
  LET j == from_str(line)
      name == line.name.v
      exec_time == OptVal(line.exec_time, "num")
      stdout == OptVal(line.stdout, "str")
      stderr == OptVal(line.stderr, "str")
  IN
  CASE j.variant = "-" -> ResErr
    [] j.variant = "Suite" -> ResNone
    [] j.variant = "Test" ->
         CASE line.event.v = "started" -> ResSome(Started(name))
           [] line.event.v = "ok" -> ResSome(Passed(name, exec_time))
           [] line.event.v = "failed" -> ResSome(Failed(name, exec_time, stdout, stderr))
           [] line.event.v = "ignored" -> ResSome(Ignored(name))
           [] line.event.v = "timeout" -> ResSome(Timeout(name, exec_time))
           [] OTHER -> ResErr

\* json_parser.rs:57-97
parse_event(line) ==
  LET j == from_str(line)
      name == line.name.v
      exec_time == OptVal(line.exec_time, "num")
      stdout == OptVal(line.stdout, "str")
      stderr == OptVal(line.stderr, "str")
  IN
  CASE j.variant = "-" -> ResErr
    [] j.variant = "Suite" -> ResNone
    [] j.variant = "Test" ->
         CASE line.event.v = "started" -> ResSome(Started(name))
           [] line.event.v = "ok" -> ResSome(Passed(name, exec_time))
           [] line.event.v = "failed" -> ResSome(Failed(name, exec_time, stdout, stderr))
           [] line.event.v = "ignored" -> ResSome(Ignored(name))
           [] line.event.v = "timeout" -> ResSome(Timeout(name, exec_time))
           [] OTHER -> ResNone

\* Every line a runner can print, as parse_event can tell them apart.
JsonLine(ty, ev, nm, et, so, se, tc) ==
  [shape |-> "object", type |-> ty, event |-> ev, name |-> nm,
   exec_time |-> et, stdout |-> so, stderr |-> se, test_count |-> tc]
\* A line that is no JSON object: "empty", "spaces" (whitespace only),
\* "text" (not JSON), "scalar" (JSON, but no object).
PlainLine(shape) ==
  [shape |-> shape, type |-> Absent, event |-> Absent, name |-> Absent,
   exec_time |-> Absent, stdout |-> Absent, stderr |-> Absent,
   test_count |-> Absent]
NoLine == PlainLine("-")

\* main.rs:153  line.trim().is_empty()
IsBlank(line) == line.shape \in {"empty", "spaces"}

\* ------------------------------------------------- subunit_writer.rs
\* A subunit::Event as write_event fills it: timestamp is always
\* Some(Utc::now()), route_code and tags always None.
SubunitEvent(status, name, now, fname, content, mime) ==
  [status |-> Some(status), test_id |-> Some(name), timestamp |-> now,
   file_name |-> fname, file_content |-> content, mime_type |-> mime,
   route_code |-> None, tags |-> None]
TEXT_PLAIN == Some("text/plain;charset=utf8")

\* write_event with the two attachments of Failed applied in the other order.
EventForStdoutWins(event, now) ==
  LET evt(status, fname, content, mime) ==
        SubunitEvent(status, event.name, now, fname, content, mime)
      stdout_set == event.stdout.some /\ event.stdout.v # ""
      stderr_set == event.stderr.some /\ event.stderr.v # ""
  IN
  CASE event.kind = "Started" -> evt("inprogress", None, None, None)
    [] event.kind = "Passed" -> evt("success", None, None, None)
    [] event.kind = "Failed" ->
         LET e0 == evt("fail", None, None, None)
             e1 == IF stderr_set
                   THEN evt("fail", Some("stderr"), Some(event.stderr.v), TEXT_PLAIN)
                   ELSE e0
             e2 == IF stdout_set
                   THEN evt("fail", Some("stdout"), Some(event.stdout.v), TEXT_PLAIN)
                   ELSE e1
         IN e2
    [] event.kind = "Ignored" -> evt("skip", None, None, None)
    [] event.kind = "Timeout" ->
         evt("fail", Some("reason"), Some("Test timed out"), TEXT_PLAIN)

\* write_event with Ignored given the status of the arm above it.
EventForIgnoredAsFail(event, now) ==
  LET evt(status, fname, content, mime) ==
        SubunitEvent(status, event.name, now, fname, content, mime)
      stdout_set == event.stdout.some /\ event.stdout.v # ""
      stderr_set == event.stderr.some /\ event.stderr.v # ""
  IN
  CASE event.kind = "Started" -> evt("inprogress", None, None, None)
    [] event.kind = "Passed" -> evt("success", None, None, None)
    [] event.kind = "Failed" ->
         LET e0 == evt("fail", None, None, None)
             e1 == IF stdout_set
                   THEN evt("fail", Some("stdout"), Some(event.stdout.v), TEXT_PLAIN)
                   ELSE e0
             e2 == IF stderr_set
                   THEN evt("fail", Some("stderr"), Some(event.stderr.v), TEXT_PLAIN)
                   ELSE e1
         IN e2
    [] event.kind = "Ignored" -> evt("fail", None, None, None)
    [] event.kind = "Timeout" ->
         evt("fail", Some("reason"), Some("Test timed out"), TEXT_PLAIN)

\* The subunit::Event that write_event builds for `event` at clock reading
\* `now` (subunit_writer.rs:21-125).
EventFor(event, now) ==
  LET evt(status, fname, content, mime) ==
        SubunitEvent(status, event.name, now, fname, content, mime)
      stdout_set == event.stdout.some /\ event.stdout.v # ""
      stderr_set == event.stderr.some /\ event.stderr.v # ""
  IN
  CASE event.kind = "Started" -> evt("inprogress", None, None, None)
    [] event.kind = "Passed" -> evt("success", None, None, None)
    [] event.kind = "Failed" ->
         LET e0 == evt("fail", None, None, None)
             \* attach stdout if present and non-empty
             e1 == IF stdout_set
                   THEN evt("fail", Some("stdout"), Some(event.stdout.v), TEXT_PLAIN)
                   ELSE e0
             \* then stderr, overwriting the stdout attachment
             e2 == IF stderr_set
                   THEN evt("fail", Some("stderr"), Some(event.stderr.v), TEXT_PLAIN)
                   ELSE e1
         IN e2
    [] event.kind = "Ignored" -> evt("skip", None, None, None)
    [] event.kind = "Timeout" ->
         evt("fail", Some("reason"), Some("Test timed out"), TEXT_PLAIN)

\* subunit::Event::write: the packet's bytes, the signature byte first and
\* the framed fields after it (kept as the Event itself).
Packet(evt) == <<SIGNATURE, evt>>

\* What a stream carries: whole packets, or lines of text.
PacketChunk(evt) == [kind |-> "packet", bytes |-> Packet(evt)]
TextChunk(chars) == [kind |-> "text", bytes |-> chars \o <<"\n">>]

\* evt.write that puts the packet on the sink twice.
SinkWriteTwice(pending, evt) == pending \o <<PacketChunk(evt), PacketChunk(evt)>>
\* evt.write(&mut self.output): the packet joins the sink's pending bytes.
SinkWrite(pending, evt) == Append(pending, PacketChunk(evt))
\* write_event without its flush.
SinkFlushNothing(wire, pending) == [wire |-> wire, pending |-> pending]
\* self.output.flush(): everything pending reaches the wire, in order.
SinkFlush(wire, pending) == [wire |-> wire \o pending, pending |-> <<>>]

\* -------------------------------------------------------------- text
Sp == " "
RECURSIVE TrimStart(_)
TrimStart(s) == IF s # <<>> /\ Head(s) = Sp THEN TrimStart(Tail(s)) ELSE s
RECURSIVE TrimEnd(_)
TrimEnd(s) ==
  IF s # <<>> /\ s[Len(s)] = Sp THEN TrimEnd(SubSeq(s, 1, Len(s) - 1)) ELSE s
\* str::trim
Trim(s) == TrimEnd(TrimStart(s))
\* str::ends_with
EndsWith(s, suf) ==
  Len(s) >= Len(suf) /\ SubSeq(s, Len(s) - Len(suf) + 1, Len(s)) = suf
\* str::contains
Contains(s, sub) ==
  \E i \in 1..(Len(s) - Len(sub) + 1) : SubSeq(s, i, i + Len(sub) - 1) = sub
\* str::strip_suffix, when the suffix is there
DropSuffix(s, suf) == SubSeq(s, 1, Len(s) - Len(suf))

\* ------------------------------------------------------------ list mode
TESTS_COMMA == <<" ", "t", "e", "s", "t", "s", ",", " ">>
BENCHMARKS == <<" ", "b", "e", "n", "c", "h", "m", "a", "r", "k", "s">>
COLON_TEST == <<":", " ", "t", "e", "s", "t">>
COLON_BENCH == <<":", " ", "b", "e", "n", "c", "h">>

\* main.rs:73-88, the body of the loop over the runner's list output: the
\* lines println! prints for one line of it (none, or one).
ListLinePrinted(raw) ==
  LET line == Trim(raw) IN
  IF line = <<>> \/ EndsWith(line, TESTS_COMMA) \/ Contains(line, BENCHMARKS)
  THEN <<>>
  ELSE IF EndsWith(line, COLON_TEST) THEN <<DropSuffix(line, COLON_TEST)>>
  ELSE IF EndsWith(line, COLON_BENCH) THEN <<DropSuffix(line, COLON_BENCH)>>
  ELSE <<line>>

\* ------------------------------------------------------- --load-list mode
\* The filter of main.rs:105 without the trim of main.rs:104.
TestNamesUntrimmed(file_lines) == SelectSeq(file_lines, LAMBDA l : l # <<>>)
\* main.rs:99-106: every line trimmed, the empty ones dropped.
TestNames(file_lines) ==
  SelectSeq([i \in 1..Len(file_lines) |-> Trim(file_lines[i])],
            LAMBDA l : l # <<>>)

\* ------------------------------------------------------------ the runner
\* main.rs:117-134: the arguments of the cargo command.
CargoTestArgs(filters) ==
  [args |-> <<"test", "--", "-Z", "unstable-options", "--format", "json",
              "--report-time">>,
   filters |-> filters]
NoCommand == [args |-> <<>>, filters |-> <<>>]

\* ExitStatus::success
Success(status) == status.has_code /\ status.code = 0
\* status.code().unwrap_or(1)
CodeOr1(status) == IF status.has_code THEN status.code ELSE 1

\* ------------------------------------------------------------ the inputs
\* Runner lines of the run modes: one of each way the read loop treats a line.
RunLines ==
  { PlainLine("empty"), PlainLine("text"),
    JsonLine(Str("suite"), Str("started"), Absent, Absent, Absent, Absent, Num("3")),
    JsonLine(Str("test"), Str("started"), Str("x"), Absent, Absent, Absent, Absent),
    JsonLine(Str("test"), Str("ok"), Str("x"), Num("0.5"), Absent, Absent, Absent),
    JsonLine(Str("test"), Str("failed"), Str("y"), Num("0.5"), Str("o"), Str("e"), Absent),
    JsonLine(Str("test"), Str("bench"), Str("x"), Absent, Absent, Absent, Absent),
    JsonLine(Str("test"), Str("ok"), Absent, Absent, Absent, Absent, Absent) }

\* Every kind of line parse_event can be given.
AllLines ==
  { PlainLine(sh) : sh \in {"empty", "spaces", "text", "scalar"} } \cup
  { JsonLine(ty, ev, nm, et, so, se, tc) :
      ty \in {Absent, Num("1"), Str("suite"), Str("test"), Str("Test")},
      ev \in {Absent, Null, Num("1")} \cup
             { Str(k) : k \in {"started", "ok", "failed", "ignored", "timeout", "bench"} },
      nm \in {Absent, Null, Str(""), Str("x")},
      et \in {Absent, Null, Num("0.5"), Str("0.5")},
      so \in {Absent, Null, Str(""), Str("o"), Num("1")},
      se \in {Absent, Str(""), Str("e"), Num("1")},
      tc \in {Absent, Num("3"), Str("3")} }

\* Every shape of TestEvent write_event can be given.
Names == {"", "x", "y"}
Durations == {None, Some("0.5")}
Outputs == {None, Some(""), Some("text")}
AllEvents ==
  { Started(n) : n \in Names } \cup { Ignored(n) : n \in Names } \cup
  { Passed(n, d) : n \in Names, d \in Durations } \cup
  { Timeout(n, d) : n \in Names, d \in Durations } \cup
  { Failed(n, d, so, se) : n \in Names, d \in Durations, so \in Outputs, se \in Outputs }

\* Exit statuses of the runner: a code, or none (killed by a signal).
Statuses ==
  { [has_code |-> TRUE, code |-> c] : c \in {0, 1, 101} } \cup
  { [has_code |-> FALSE, code |-> 0] }

\* Lines of a runner's --list output.
ListLines ==
  { <<>>, <<Sp, Sp>>, <<"d">>,
    <<"a">> \o COLON_TEST,
    <<Sp, "c">> \o COLON_TEST \o <<Sp>>,
    <<"b">> \o COLON_BENCH,
    <<"2", Sp, "t", "e", "s", "t", "s", ",", Sp, "0">> \o BENCHMARKS,
    <<"1", Sp, "t", "e", "s", "t", ",", Sp, "1", Sp, "b", "e", "n", "c", "h", "m", "a", "r", "k">>,
    <<"3">> \o TESTS_COMMA }

\* Lines of a --load-list file.
FileLines == { <<>>, <<Sp>>, <<"m">>, <<Sp, "m", Sp>>, <<"n">> }

SeqsUpTo(S, n) == UNION { [1..k -> S] : k \in 0..n }

\* The file --load-list names: it cannot be opened, cannot be read, or has lines.
NoFile == [opened |-> FALSE, read_ok |-> FALSE, lines |-> <<>>]
Files ==
  { NoFile, [opened |-> TRUE, read_ok |-> FALSE, lines |-> <<>>] } \cup
  { [opened |-> TRUE, read_ok |-> TRUE, lines |-> ls] :
      ls \in SeqsUpTo(FileLines, MaxFileLines) }

\* ------------------------------------------------------------- the state
VARIABLES
  mode,         \* cli.mode: "list", "load_list" or "run"
  pc,           \* where the program is
  file,         \* the --load-list file
  test_filters, \* the filters run_tests_with_filters is given
  cmd,          \* arguments of the spawned cargo command
  spawned,      \* whether a subprocess has been spawned
  observed,     \* the runner's stdout lines read so far
  eof,          \* whether reader.lines() has ended
  line,         \* the line in hand
  parsed,       \* parse_event's result for it
  buf,          \* sink: written, not yet flushed
  out,          \* sink: on the wire (standard output)
  err,          \* this tool's writes to the diagnostic stream
  child_err,    \* chunks the runner wrote to the inherited stderr
  now,          \* the wall clock
  status,       \* the runner's exit status
  exited,       \* whether the tool has exited
  exit_code,    \* its exit code
  exit_via,     \* "ok", "status" (process::exit at main.rs:174) or "error"
  list_out,     \* the runner's --list output
  list_idx,     \* next line of it
  n_ok          \* calls of write_event that returned Ok

vars ==
  <<mode, pc, file, test_filters, cmd, spawned, observed, eof, line, parsed,
    buf, out, err, child_err, now, status, exited, exit_code, exit_via, list_out,
    list_idx, n_ok>>

Diag(kind, about) == [kind |-> kind, about |-> about]

InitCommon ==
  /\ test_filters = <<>>
  /\ cmd = NoCommand
  /\ spawned = FALSE
  /\ observed = <<>>
  /\ eof = FALSE
  /\ buf = <<>>
  /\ out = <<>>
  /\ err = <<>>
  /\ child_err = 0
  /\ now = 0
  /\ status = [has_code |-> FALSE, code |-> 0]
  /\ exited = FALSE
  /\ exit_code = 0
  /\ exit_via = "-"
  /\ list_out = <<>>
  /\ list_idx = 1
  /\ n_ok = 0

Init ==
  /\ mode \in {"list", "load_list", "run"}
  /\ pc = "main"
  /\ file \in (IF mode = "load_list" THEN Files ELSE {NoFile})
  /\ line = NoLine
  /\ parsed = ResNone
  /\ InitCommon

\* An Err returned from main: anyhow prints it on stderr, the exit code is 1.
Abort ==
  /\ pc' = "exit"
  /\ exited' = TRUE
  /\ exit_code' = 1
  /\ exit_via' = "error"
  /\ err' = Append(err, Diag("error", NoLine))

\* main returns Ok(()).
ReturnOk ==
  /\ pc' = "exit"
  /\ exited' = TRUE
  /\ exit_code' = 0
  /\ exit_via' = "ok"

\* ---------------------------------------------------------------- main
\* main.rs:46-47
MainList ==
  /\ pc = "main" /\ mode = "list"
  /\ pc' = "list_tests"
  /\ UNCHANGED <<mode, file, test_filters, cmd, spawned, observed, eof, line, parsed,
                 buf, out, err, child_err, now, status, exited, exit_code,
                 exit_via, list_out, list_idx, n_ok>>

\* main.rs:48-49
MainLoadList ==
  /\ pc = "main" /\ mode = "load_list"
  /\ pc' = "run_tests_from_file"
  /\ UNCHANGED <<mode, file, test_filters, cmd, spawned, observed, eof, line, parsed,
                 buf, out, err, child_err, now, status, exited, exit_code,
                 exit_via, list_out, list_idx, n_ok>>

\* main.rs:50-51 and run_tests: no filters.
MainRun ==
  /\ pc = "main" /\ mode = "run"
  /\ test_filters' = <<>>
  /\ pc' = "spawn"
  /\ UNCHANGED <<mode, file, cmd, spawned, observed, eof, line, parsed, buf, out,
                 err, child_err, now, status, exited, exit_code, exit_via,
                 list_out, list_idx, n_ok>>

\* ---------------------------------------------------------- list_tests
\* cmd.output() fails, or the runner exits unsuccessfully: an Err.
ListOutputFails ==
  /\ pc = "list_tests"
  /\ Abort
  /\ UNCHANGED <<mode, file, test_filters, cmd, spawned, observed, eof, line, parsed,
                 buf, out, child_err, now, status, list_out, list_idx, n_ok>>

\* cmd.output() gives the runner's whole output.
ListOutputOk ==
  /\ pc = "list_tests"
  /\ \E ls \in SeqsUpTo(ListLines, MaxListLines) :
       /\ list_out' = ls
       /\ list_idx' = 1
  /\ pc' = "list_loop"
  /\ UNCHANGED <<mode, file, test_filters, cmd, spawned, observed, eof, line, parsed,
                 buf, out, err, child_err, now, status, exited, exit_code,
                 exit_via, n_ok>>

\* println! puts a line on standard output, which is line-buffered.
Println(wire, lines) ==
  wire \o [i \in 1..Len(lines) |-> TextChunk(lines[i])]

\* One turn of the loop over the output's lines.
ListLine ==
  /\ pc = "list_loop" /\ list_idx <= Len(list_out)
  /\ out' = Println(out, ListLinePrinted(list_out[list_idx]))
  /\ list_idx' = list_idx + 1
  /\ UNCHANGED <<mode, pc, file, test_filters, cmd, spawned, observed, eof, line,
                 parsed, buf, err, child_err, now, status, exited, exit_code,
                 exit_via, list_out, n_ok>>

ListDone ==
  /\ pc = "list_loop" /\ list_idx > Len(list_out)
  /\ ReturnOk
  /\ UNCHANGED <<mode, file, test_filters, cmd, spawned, observed, eof, line, parsed,
                 buf, out, err, child_err, now, status, list_out, list_idx, n_ok>>

\* ------------------------------------------------- run_tests_from_file
\* The file cannot be opened or read, or names no test: an Err.
LoadFileFails ==
  /\ pc = "run_tests_from_file"
  /\ \/ ~file.opened
     \/ ~file.read_ok
     \/ TestNames(file.lines) = <<>>
  /\ Abort
  /\ UNCHANGED <<mode, file, test_filters, cmd, spawned, observed, eof, line, parsed,
                 buf, out, child_err, now, status, list_out, list_idx, n_ok>>

LoadFileOk ==
  /\ pc = "run_tests_from_file"
  /\ file.opened /\ file.read_ok
  /\ TestNames(file.lines) # <<>>
  /\ test_filters' = TestNames(file.lines)
  /\ pc' = "spawn"
  /\ UNCHANGED <<mode, file, cmd, spawned, observed, eof, line, parsed, buf, out,
                 err, child_err, now, status, exited, exit_code, exit_via,
                 list_out, list_idx, n_ok>>

\* ---------------------------------------------- run_tests_with_filters
\* cmd.spawn() fails.
SpawnFails ==
  /\ pc = "spawn"
  /\ Abort
  /\ UNCHANGED <<mode, file, test_filters, cmd, spawned, observed, eof, line, parsed,
                 buf, out, child_err, now, status, list_out, list_idx, n_ok>>

SpawnOk ==
  /\ pc = "spawn"
  /\ cmd' = CargoTestArgs(test_filters)
  /\ spawned' = TRUE
  /\ pc' = "read"
  /\ UNCHANGED <<mode, file, test_filters, observed, eof, line, parsed, buf, out,
                 err, child_err, now, status, exited, exit_code, exit_via,
                 list_out, list_idx, n_ok>>

LineBound == IF mode = "load_list" THEN MaxLoadRunLines ELSE MaxLines

\* reader.lines() yields the runner's next line.
ReadLine ==
  /\ pc = "read" /\ Len(observed) < LineBound
  /\ \E l \in RunLines :
       /\ line' = l
       /\ observed' = Append(observed, l)
  /\ pc' = "line"
  /\ UNCHANGED <<mode, eof, file, test_filters, cmd, spawned, parsed, buf, out, err,
                 child_err, now, status, exited, exit_code, exit_via, list_out,
                 list_idx, n_ok>>

\* reader.lines() yields an Err (main.rs:151).
ReadFails ==
  /\ pc = "read"
  /\ Abort
  /\ UNCHANGED <<mode, file, test_filters, cmd, spawned, observed, eof, line, parsed,
                 buf, out, child_err, now, status, list_out, list_idx, n_ok>>

\* End of the runner's stdout.
ReadEof ==
  /\ pc = "read"
  /\ eof' = TRUE
  /\ pc' = "wait"
  /\ UNCHANGED <<mode, file, test_filters, cmd, spawned, observed, line, parsed,
                 buf, out, err, child_err, now, status, exited, exit_code,
                 exit_via, list_out, list_idx, n_ok>>

\* main.rs:153-155
SkipBlank ==
  /\ pc = "line" /\ IsBlank(line)
  /\ pc' = "read"
  /\ UNCHANGED <<mode, file, test_filters, cmd, spawned, observed, eof, line, parsed,
                 buf, out, err, child_err, now, status, exited, exit_code,
                 exit_via, list_out, list_idx, n_ok>>

\* main.rs:157  json_parser::parse_event(&line)
Parse ==
  /\ pc = "line" /\ ~IsBlank(line)
  /\ parsed' = parse_event(line)
  /\ pc' = "match"
  /\ UNCHANGED <<mode, file, test_filters, cmd, spawned, observed, eof, line, buf,
                 out, err, child_err, now, status, exited, exit_code, exit_via,
                 list_out, list_idx, n_ok>>

\* Ok(Some(event)): write_event is entered.
MatchSome ==
  /\ pc = "match" /\ parsed.tag = "some"
  /\ pc' = "write"
  /\ UNCHANGED <<mode, file, test_filters, cmd, spawned, observed, eof, line, parsed,
                 buf, out, err, child_err, now, status, exited, exit_code,
                 exit_via, list_out, list_idx, n_ok>>

\* Ok(None)
MatchNone ==
  /\ pc = "match" /\ parsed.tag = "none"
  /\ pc' = "read"
  /\ UNCHANGED <<mode, file, test_filters, cmd, spawned, observed, eof, line, parsed,
                 buf, out, err, child_err, now, status, exited, exit_code,
                 exit_via, list_out, list_idx, n_ok>>

\* The warning printed with println! instead of eprintln!.
WarnOnStdout(streams, l) ==
  [streams EXCEPT !.out = @ \o <<TextChunk(<<"W">>), TextChunk(<<"L">>)>>]
\* eprintln! of the warning and of the line (main.rs:165-166).
WarnParseFailure(streams, l) ==
  [streams EXCEPT !.err = @ \o <<Diag("warning", l), Diag("line", l)>>]

\* The Err arm propagating the error with `?` instead of logging it.
MatchErrEscalates ==
  /\ pc = "match" /\ parsed.tag = "err"
  /\ Abort
  /\ UNCHANGED <<mode, file, test_filters, cmd, spawned, observed, eof, line,
                 parsed, buf, out, child_err, now, status, list_out, list_idx,
                 n_ok>>

\* Err(e)
MatchErr ==
  /\ pc = "match" /\ parsed.tag = "err"
  /\ LET after == WarnParseFailure([out |-> out, err |-> err], line) IN
       /\ out' = after.out
       /\ err' = after.err
  /\ pc' = "read"
  /\ UNCHANGED <<mode, file, test_filters, cmd, spawned, observed, eof, line, parsed,
                 buf, child_err, now, status, exited, exit_code, exit_via,
                 list_out, list_idx, n_ok>>

\* write_event: evt.write(&mut self.output) succeeds.
EvtWrite ==
  /\ pc = "write"
  /\ buf' = SinkWrite(buf, EventFor(parsed.event, now))
  /\ pc' = "flush"
  /\ UNCHANGED <<mode, file, test_filters, cmd, spawned, observed, eof, line, parsed,
                 out, err, child_err, now, status, exited, exit_code, exit_via,
                 list_out, list_idx, n_ok>>

\* write_event: evt.write fails, the Err goes up through main.rs:159.
EvtWriteFails ==
  /\ pc = "write"
  /\ Abort
  /\ UNCHANGED <<mode, file, test_filters, cmd, spawned, observed, eof, line, parsed,
                 buf, out, child_err, now, status, list_out, list_idx, n_ok>>

\* write_event: self.output.flush() succeeds and write_event returns Ok.
Flush ==
  /\ pc = "flush"
  /\ LET s == SinkFlush(out, buf) IN
       /\ out' = s.wire
       /\ buf' = s.pending
  /\ n_ok' = n_ok + 1
  /\ pc' = "read"
  /\ UNCHANGED <<mode, file, test_filters, cmd, spawned, observed, eof, line, parsed,
                 err, child_err, now, status, exited, exit_code, exit_via,
                 list_out, list_idx>>

\* write_event: flush fails.
FlushFails ==
  /\ pc = "flush"
  /\ Abort
  /\ UNCHANGED <<mode, file, test_filters, cmd, spawned, observed, eof, line, parsed,
                 buf, out, child_err, now, status, list_out, list_idx, n_ok>>

\* child.wait() fails.
WaitFails ==
  /\ pc = "wait"
  /\ Abort
  /\ UNCHANGED <<mode, file, test_filters, cmd, spawned, observed, eof, line, parsed,
                 buf, out, child_err, now, status, list_out, list_idx, n_ok>>

\* unwrap_or(0) in place of unwrap_or(1).
ExitCodeForSignalAsSuccess(st) ==
  IF ~Success(st) THEN (IF st.has_code THEN st.code ELSE 0) ELSE 0
\* The tool's exit code once the runner's status is known (main.rs:173-177).
ExitCodeFor(st) == IF ~Success(st) THEN CodeOr1(st) ELSE 0

\* child.wait() gives the runner's status; the tool exits.
WaitExit ==
  /\ pc = "wait"
  /\ \E st \in Statuses :
       /\ status' = st
       /\ exit_code' = ExitCodeFor(st)
       /\ exit_via' = IF ~Success(st) THEN "status" ELSE "ok"
  /\ exited' = TRUE
  /\ pc' = "exit"
  /\ UNCHANGED <<mode, file, test_filters, cmd, spawned, observed, eof, line, parsed,
                 buf, out, err, child_err, now, list_out, list_idx, n_ok>>

\* ----------------------------------------------------- the environment
\* The wall clock moves on; write_event is the only reader (Utc::now), so
\* only its moves before a reading are kept.
Tick ==
  /\ pc = "write" /\ now < MaxClock
  /\ now' = now + 1
  /\ UNCHANGED <<mode, pc, file, test_filters, cmd, spawned, observed, eof, line,
                 parsed, buf, out, err, child_err, status, exited, exit_code,
                 exit_via, list_out, list_idx, n_ok>>

\* The runner writes to the stderr it inherited (main.rs:141).
ChildStderr ==
  /\ spawned /\ pc \in {"read", "line", "match", "write", "flush", "wait"}
  /\ child_err < MaxChildErr
  /\ child_err' = child_err + 1
  /\ UNCHANGED <<mode, pc, file, test_filters, cmd, spawned, observed, eof, line,
                 parsed, buf, out, err, now, status, exited, exit_code,
                 exit_via, list_out, list_idx, n_ok>>

Next ==
  \/ MainList \/ MainLoadList \/ MainRun
  \/ ListOutputFails \/ ListOutputOk \/ ListLine \/ ListDone
  \/ LoadFileFails \/ LoadFileOk
  \/ SpawnFails \/ SpawnOk
  \/ ReadLine \/ ReadFails \/ ReadEof \/ SkipBlank \/ Parse
  \/ MatchSome \/ MatchNone \/ MatchErr
  \/ EvtWrite \/ EvtWriteFails \/ Flush \/ FlushFails
  \/ WaitFails \/ WaitExit
  \/ Tick \/ ChildStderr

Spec == Init /\ [][Next]_vars

\* ------------------------------------------- parse_event on its own
\* A caller hands parse_event any line (json_parser.rs tests).
ParseCall ==
  /\ pc = "call"
  /\ parsed' = parse_event(line)
  /\ pc' = "returned"
  /\ UNCHANGED <<mode, file, test_filters, cmd, spawned, observed, eof, line,
                 buf, out, err, child_err, now, status, exited, exit_code,
                 exit_via, list_out, list_idx, n_ok>>

InitParse ==
  /\ mode = "run"
  /\ pc = "call"
  /\ file = NoFile
  /\ line \in AllLines
  /\ parsed = ResNone
  /\ InitCommon

SpecParse == InitParse /\ [][ParseCall]_vars

\* ------------------------------------------- write_event on its own
\* A SubunitWriter is handed any event (subunit_writer.rs tests).
InitWrite ==
  /\ mode = "run"
  /\ pc = "write"
  /\ file = NoFile
  /\ line = NoLine
  /\ parsed \in { ResSome(e) : e \in AllEvents }
  /\ InitCommon

NextWrite == EvtWrite \/ EvtWriteFails \/ Flush \/ FlushFails \/ Tick

SpecWrite == InitWrite /\ [][NextWrite]_vars

\* ================================================================ claims
RunMode == mode \in {"run", "load_list"}
\* Everything written to standard output so far, in order.
Wire == out \o buf
\* The subunit Event a packet chunk carries.
EvtOf(chunk) == chunk.bytes[2]

\* The status the specification's table gives each variant.
TableStatus(kind) ==
  CASE kind = "Started" -> "inprogress"
    [] kind = "Passed" -> "success"
    [] kind = "Failed" -> "fail"
    [] kind = "Ignored" -> "skip"
    [] kind = "Timeout" -> "fail"

\* The events parse_event yields for lines, in order: blank lines and lines
\* giving None or an error contribute nothing.
RECURSIVE EventsOf(_)
EventsOf(ls) ==
  IF ls = <<>> THEN <<>>
  ELSE LET l == Head(ls)
           r == parse_event(l)
       IN (IF ~IsBlank(l) /\ r.tag = "some" THEN <<r.event>> ELSE <<>>)
            \o EventsOf(Tail(ls))

\* Test id and status, of the events expected and of the packets written.
ExpectedIds(ls) ==
  LET es == EventsOf(ls) IN
  [i \in 1..Len(es) |-> <<es[i].name, TableStatus(es[i].kind)>>]
WrittenIds(chunks) ==
  [i \in 1..Len(chunks) |->
     IF chunks[i].kind = "packet"
     THEN <<EvtOf(chunks[i]).test_id.v, EvtOf(chunks[i]).status.v>>
     ELSE <<"not a packet", "">>]
IsPrefix(a, b) == Len(a) <= Len(b) /\ a = SubSeq(b, 1, Len(a))

\* C1 as stated: when the run is over, the packets written are exactly the
\* events parse_event yields for the lines read, one packet per event, in order.
C1_EveryEventWritten ==
  (RunMode /\ exited) => WrittenIds(Wire) = ExpectedIds(observed)

\* C1 amended: the packets written are always the events of the lines read so
\* far, in order, none duplicated; all of them whenever the loop is between
\* lines and when the run ends without an I/O error; a failed write or flush
\* ends the run with at most the packet of the line in hand missing.
C1_PacketsFollowEvents ==
  RunMode =>
    /\ IsPrefix(WrittenIds(Wire), ExpectedIds(observed))
    /\ pc \in {"read", "wait"} => WrittenIds(out) = ExpectedIds(observed)
    /\ (exited /\ exit_via # "error") => WrittenIds(out) = ExpectedIds(observed)
    /\ Len(WrittenIds(Wire)) + 1 >= Len(ExpectedIds(observed))

C1_Witness ==
  /\ mode = "run" /\ exited /\ exit_via # "error"
  /\ Len(observed) = 3
  /\ WrittenIds(out) = <<<<"x", "inprogress">>, <<"x", "success">>>>

\* C2: a line parse_event rejects writes no packet, puts the warning and the
\* line on stderr, and the loop goes on to the next line; the exit code, when
\* the runner's status is adopted, is the runner's whatever was rejected.
IsWarned(l) == ~IsBlank(l) /\ parse_event(l).tag = "err"
C2_ParseFailureIsolated ==
  /\ [][(pc = "match" /\ pc' # pc /\ IsWarned(line)) =>
          /\ pc' = "read"
          /\ out' = out /\ buf' = buf
          /\ err' = err \o <<Diag("warning", line), Diag("line", line)>>
          /\ ~exited' /\ observed' = observed]_vars
  /\ [](RunMode /\ exited /\ exit_via # "error" =>
          /\ WrittenIds(out) = ExpectedIds(SelectSeq(observed, LAMBDA l : ~IsWarned(l)))
          /\ exit_code = IF status.has_code THEN status.code ELSE 1)

C2_Witness ==
  /\ mode = "run" /\ exited /\ exit_via = "ok"
  /\ Len(observed) = 2 /\ IsWarned(observed[1])
  /\ Len(err) = 2 /\ err[1].kind = "warning" /\ err[2].about = observed[1]
  /\ Len(out) = 1

\* C3: the tool exits with the runner's status only after end-of-stream with
\* every packet written and flushed; the code is the runner's when it has one,
\* 1 when it has none, success (0) when the runner succeeded.
C3_ExitAfterDrain ==
  (RunMode /\ exited /\ exit_via \in {"status", "ok"}) =>
    /\ eof
    /\ buf = <<>>
    /\ WrittenIds(out) = ExpectedIds(observed)
    /\ exit_code = (CASE status.has_code /\ status.code = 0 -> 0
                      [] status.has_code /\ status.code # 0 -> status.code
                      [] ~status.has_code -> 1)
    /\ (exit_via = "ok") = (status.has_code /\ status.code = 0)

C3_Witness ==
  /\ mode = "run" /\ exited /\ exit_via = "status"
  /\ ~status.has_code /\ exit_code = 1
  /\ Len(out) = 2

\* C4: each write_event that returned Ok wrote one packet and flushed it, so
\* whenever the loop reads the next line nothing written is still unflushed.
C4_FlushedBeforeNextRead ==
  RunMode =>
    /\ pc \in {"read", "line", "match", "wait"} => buf = <<>>
    /\ Len(out) = n_ok
    /\ Len(buf) <= 1

C4_Witness == mode = "run" /\ pc = "read" /\ n_ok = 2 /\ Len(observed) = 2

\* C5: in the run modes standard output holds whole packets only, each
\* non-empty and starting with the signature byte; warnings are on stderr.
C5_StdoutOnlyPackets ==
  RunMode =>
    /\ \A i \in 1..Len(Wire) :
         /\ Wire[i].kind = "packet"
         /\ Len(Wire[i].bytes) > 0
         /\ Head(Wire[i].bytes) = SIGNATURE
    /\ Len(Wire) = n_ok + Len(buf)
    /\ \A i \in 1..Len(err) : err[i].kind \in {"warning", "line", "error"}

C5_Witness ==
  /\ mode = "run" /\ Len(out) = 1 /\ child_err > 0
  /\ Len(err) = 2 /\ err[1].kind = "warning"

\* The packet write_event wrote for the event it was given.
Attachment(p) == <<p.file_name, p.file_content>>
NoAttachment == <<None, None>>
NonEmpty(o) == o.some /\ o.v # ""

\* C6: the attachment is, for Failed, stderr under "stderr" if non-empty, else
\* stdout under "stdout" if non-empty, else none; for Timeout always "Test
\* timed out" under "reason"; for the others none; and file_name,
\* file_content and mime_type are present together or absent together.
C6_AttachmentRule ==
  \A i \in 1..Len(Wire) :
    LET e == parsed.event
        p == EvtOf(Wire[i])
    IN
    /\ e.kind = "Failed" =>
         Attachment(p) =
           IF NonEmpty(e.stderr) THEN <<Some("stderr"), Some(e.stderr.v)>>
           ELSE IF NonEmpty(e.stdout) THEN <<Some("stdout"), Some(e.stdout.v)>>
           ELSE NoAttachment
    /\ e.kind = "Timeout" =>
         Attachment(p) = <<Some("reason"), Some("Test timed out")>>
    /\ e.kind \in {"Started", "Passed", "Ignored"} => Attachment(p) = NoAttachment
    /\ p.file_name.some = p.file_content.some
    /\ p.file_content.some = p.mime_type.some

C6_Witness ==
  /\ pc = "read" /\ Len(out) = 1
  /\ parsed.event.kind = "Failed"
  /\ NonEmpty(parsed.event.stdout) /\ NonEmpty(parsed.event.stderr)
  /\ EvtOf(out[1]).file_name = Some("stderr")

\* C7: test_id is the event's name, status follows from the variant alone
\* (inprogress, success, fail, skip, fail) and the duration changes no field:
\* the packet is the one the same event without a duration gets at that time.
C7_StatusAndId ==
  \A i \in 1..Len(Wire) :
    LET e == parsed.event
        p == EvtOf(Wire[i])
    IN
    /\ p.test_id = Some(e.name)
    /\ p.status = Some(TableStatus(e.kind))
    /\ p.status.v \in {"inprogress", "success", "fail", "skip"}
    /\ p.timestamp \in 0..now
    /\ p.route_code = None /\ p.tags = None
    /\ \A d \in Durations :
         p = EventFor([e EXCEPT !.duration_secs = d], p.timestamp)

C7_Witness ==
  /\ pc = "read" /\ Len(out) = 1
  /\ parsed.event.kind = "Timeout" /\ parsed.event.duration_secs.some
  /\ EvtOf(out[1]).status = Some("fail") /\ EvtOf(out[1]).timestamp = 1

\* What the runner's JSON schema asks of a line.
KnownKinds == {"started", "ok", "failed", "ignored", "timeout"}
VariantOf(kind) ==
  CASE kind = "started" -> "Started"
    [] kind = "ok" -> "Passed"
    [] kind = "failed" -> "Failed"
    [] kind = "ignored" -> "Ignored"
    [] kind = "timeout" -> "Timeout"
Optional(j, ty) == j.t = "absent" \/ j.t = "null" \/ j.t = ty
Provided(j) == IF j.t \in {"absent", "null"} THEN None ELSE Some(j.v)
WellFormedSuite(l) ==
  /\ l.shape = "object" /\ l.type = Str("suite")
  /\ l.event.t = "str" /\ Optional(l.test_count, "num")
WellFormedTest(l) ==
  /\ l.shape = "object" /\ l.type = Str("test")
  /\ l.event.t = "str" /\ l.name.t = "str"
  /\ Optional(l.exec_time, "num")
  /\ Optional(l.stdout, "str") /\ Optional(l.stderr, "str")

\* C8: a well-formed test line of a known kind gives the matching variant with
\* the provided name, duration, stdout and stderr in the fields the variant
\* has; a suite line or a test line of another kind gives None; anything else
\* gives an error.
C8_ParseClassifies ==
  pc = "returned" =>
    /\ (WellFormedTest(line) /\ line.event.v \in KnownKinds) =>
         /\ parsed.tag = "some"
         /\ parsed.event.kind = VariantOf(line.event.v)
         /\ parsed.event.name = line.name.v
         /\ parsed.event.kind \in {"Passed", "Failed", "Timeout"} =>
              parsed.event.duration_secs = Provided(line.exec_time)
         /\ parsed.event.kind = "Failed" =>
              /\ parsed.event.stdout = Provided(line.stdout)
              /\ parsed.event.stderr = Provided(line.stderr)
    /\ (WellFormedSuite(line) \/ (WellFormedTest(line) /\ line.event.v \notin KnownKinds)) =>
         parsed = ResNone
    /\ (~WellFormedSuite(line) /\ ~WellFormedTest(line)) => parsed = ResErr

C8_Witness ==
  /\ pc = "returned" /\ parsed.tag = "some"
  /\ parsed.event.kind = "Failed"
  /\ parsed.event.stdout = Some("o") /\ parsed.event.stderr = Some("e")
  /\ parsed.event.duration_secs = Some("0.5")

\* A line's text without the spaces around it, and whether any is left.
NonBlank(l) == \E i \in 1..Len(l) : l[i] # Sp
Stripped(l) ==
  LET at == { i \in 1..Len(l) : l[i] # Sp } IN
  IF at = {} THEN <<>>
  ELSE SubSeq(l, CHOOSE i \in at : \A j \in at : i <= j,
                 CHOOSE i \in at : \A j \in at : i >= j)
FileFilters(ls) ==
  LET keep == SelectSeq(ls, NonBlank) IN
  [i \in 1..Len(keep) |-> Stripped(keep[i])]
FileUsable ==
  /\ file.opened /\ file.read_ok
  /\ \E i \in 1..Len(file.lines) : NonBlank(file.lines[i])

\* C9: with --load-list a subprocess is spawned only for a file that was
\* opened and read and has a non-blank line, and gets exactly the trimmed
\* non-blank lines as filters, in file order; otherwise the run fails with
\* nothing spawned and nothing written to standard output.
C9_LoadListGate ==
  mode = "load_list" =>
    /\ spawned =>
         /\ FileUsable
         /\ cmd.filters = FileFilters(file.lines)
         /\ cmd.filters # <<>>
    /\ ~FileUsable =>
         /\ ~spawned /\ Wire = <<>>
         /\ pc \notin {"main", "run_tests_from_file"} =>
              exited /\ exit_via = "error" /\ exit_code # 0

C9_Witness ==
  /\ mode = "load_list" /\ spawned
  /\ file.lines = <<<<Sp>>, <<Sp, "m", Sp>>>>
  /\ cmd.filters = <<<<"m">>>>

\* The summary line libtest ends a listing with: "<n> test(s), <m> benchmark(s)",
\* each noun singular after a count of 1.
Counted(n, noun) == <<n, Sp>> \o noun \o (IF n = "1" THEN <<>> ELSE <<"s">>)
SummaryLines ==
  { Counted(n, <<"t", "e", "s", "t">>) \o <<",", Sp>>
      \o Counted(m, <<"b", "e", "n", "c", "h", "m", "a", "r", "k">>) :
      n \in {"0", "1", "2", "3"}, m \in {"0", "1", "2", "3"} }
ListedName(t) ==
  IF EndsWith(t, COLON_TEST) THEN DropSuffix(t, COLON_TEST)
  ELSE IF EndsWith(t, COLON_BENCH) THEN DropSuffix(t, COLON_BENCH)
  ELSE t
RECURSIVE ListedNames(_)
ListedNames(ls) ==
  IF ls = <<>> THEN <<>>
  ELSE LET t == Stripped(Head(ls)) IN
       (IF t = <<>> \/ t \in SummaryLines \/ Contains(t, BENCHMARKS)
        THEN <<>> ELSE <<ListedName(t)>>) \o ListedNames(Tail(ls))

\* C10: --list prints one identifier per line of the runner's output, in order,
\* leaving out blank lines, the summary line and benchmark-count lines, with a
\* trailing ": test" or ": bench" removed; the summary line is never printed.
C10_ListPrintsIdentifiers ==
  (mode = "list" /\ exit_via = "ok") =>
    out = [i \in 1..Len(ListedNames(list_out)) |-> TextChunk(ListedNames(list_out)[i])]

\* C11: every event parse_event returns has a non-empty name, and so every
\* packet written has a non-empty test_id.
C11_NameNonEmpty ==
  /\ (pc = "returned" /\ parsed.tag = "some") => parsed.event.name # ""
  /\ \A i \in 1..Len(Wire) :
       Wire[i].kind = "packet" => EvtOf(Wire[i]).test_id.v # ""
====
